---- MODULE Spec2Model ----
(***************************************************************************)
(* A verification development of the design-pattern examples of the        *)
(* repository.  Every example is an independent script, so every example   *)
(* gets its own specification (SpecPool, SpecLog, SpecMap, SpecChain,      *)
(* SpecCommand, SpecMediator, SpecObserver, SpecTv) over its own           *)
(* variables; the variables of the other examples stay at their initial    *)
(* values.                                                                 *)
(***************************************************************************)
EXTENDS Integers, Sequences, FiniteSets, TLC

VARIABLES
    \* creational/pool.py
    pool_alive,       \* TRUE once a WorkerPool object exists
    _workers,         \* WorkerPool._workers: the list of idle workers
    active_count,     \* WorkerPool.active_count
    created,          \* the number of Worker objects constructed so far
    held,             \* workers the client got from activate_worker and still holds
    pool_call,        \* the last call made on the pool: [op, arg]
    pool_exc,         \* the exception that call raised ("none" if it returned)
    pool_ret,         \* what that call returned (NoWorker when nothing)
    \* behavioural/memento.py
    _checkpoints,     \* CheckpointLog._checkpoints
    max_length,       \* CheckpointLog.max_length
    added,            \* every checkpoint handed to add, in order of addition
    log_call,         \* the last call made on the log: [op, arg]
    log_exc,          \* the exception that call raised ("none" if it returned)
    log_ret,          \* what revert returned (NoCheckpoint when nothing)
    \* behavioural/chain_of_responsibility.py
    cor_chain,        \* the pool objects, each the successor of the one before
    cor_call,         \* the last get_match call: [start, params]
    cor_ret,          \* what it returned
    cor_visited,      \* the pools whose _find ran, in order
    \* behavioural/command.py
    migrations,       \* Invoker.migrations: the class of each command, in order
    _version,         \* Invoker._version
    applied,          \* per migration: its runs minus its rollbacks so far
    cmd_call,         \* the last operation on the invoker
    cmd_ret,          \* what it returned
    cmd_log,          \* the run and rollback calls it made, in order
    \* behavioural/mediator.py
    _nodes,           \* NetworkMediator._nodes: [type, local_group, active] each
    med_call,         \* the last call: [op, src, activate]
    \* behavioural/observer.py
    _observer_bots,   \* ObservableForum._observer_bots: the bot objects [cls, n]
    obs_call,         \* the last call on the forum: [op, bot, post]
    obs_processed,    \* the process(post) calls the last call made: [bot, post] each
    \* behavioural/state.py
    tvs,              \* the Tv objects: [state, ops], ops the statuses operate printed
    \* behavioural/memento.py: MapBuilder
    map_size,         \* MapBuilder.map_size: <<width, height>>
    map,              \* MapBuilder.map: the rows of tiles
    draw_call,        \* the last draw call: [op, coords, value]
    draw_ret,         \* what it returned
    draw_exc          \* the exception it raised ("none" if it returned)

poolVars == <<pool_alive, _workers, active_count, created, held, pool_call, pool_exc, pool_ret>>

logVars == <<_checkpoints, max_length, added, log_call, log_exc, log_ret>>

corVars == <<cor_chain, cor_call, cor_ret, cor_visited>>

cmdVars == <<migrations, _version, applied, cmd_call, cmd_ret, cmd_log>>

medVars == <<_nodes, med_call>>

obsVars == <<_observer_bots, obs_call, obs_processed>>

tvVars == <<tvs>>

mapVars == <<map_size, map, draw_call, draw_ret, draw_exc>>

vars == <<poolVars, logVars, corVars, cmdVars, medVars, obsVars, tvVars, mapVars>>

notPool == <<logVars, corVars, cmdVars, medVars, obsVars, tvVars, mapVars>>

notLog == <<poolVars, corVars, cmdVars, medVars, obsVars, tvVars, mapVars>>

notCor == <<poolVars, logVars, cmdVars, medVars, obsVars, tvVars, mapVars>>

notCmd == <<poolVars, logVars, corVars, medVars, obsVars, tvVars, mapVars>>

notMed == <<poolVars, logVars, corVars, cmdVars, obsVars, tvVars, mapVars>>

notObs == <<poolVars, logVars, corVars, cmdVars, medVars, tvVars, mapVars>>

notTv == <<poolVars, logVars, corVars, cmdVars, medVars, obsVars, mapVars>>

notMap == <<poolVars, logVars, corVars, cmdVars, medVars, obsVars, tvVars>>

\* ---------------------------------------------------------------- helpers

Range(s) == { s[i] : i \in 1..Len(s) }

Last(s) == s[Len(s)]

Front(s) == SubSeq(s, 1, Len(s) - 1)

Min(a, b) == IF a < b THEN a ELSE b

Abs(n) == IF n < 0 THEN -n ELSE n

\* ======================================================================
\* creational/pool.py
\* ======================================================================

\* WorkerPool.limit
limit == 8

\* Cap on active_count, so that the run of activate_worker calls is finite.
MaxActive == 2

\* The worker counts a client asks for: not positive, small, at the limit
\* and above it.
Counts == {0 - 1, 0, 1, 2, 3, limit - 1, limit, limit + 1}

NoWorker == 0 - 1

\* Cap on the number of Worker objects constructed in one run.
MaxCreated == 9

\* Identities of Worker objects: the n-th object constructed is worker n.
WorkerIds == 1 .. MaxCreated

\* [Worker() for n in range(k)] appended to the list ws, when made objects
\* exist already.
RECURSIVE AppendWorkers(_, _, _)
AppendWorkers(ws, made, k) ==
    IF k <= 0 THEN ws
    ELSE AppendWorkers(Append(ws, made + 1), made + 1, k - 1)

within_limit_check_inclusive(count) == ~(count >= limit \/ count <= 0)

\* within_limit_check(count): TRUE when it returns, FALSE when it raises
\* OverLimitError.
within_limit_check(count) == ~(count > limit \/ count <= 0)

PoolStart ==
    /\ pool_alive = FALSE
    /\ _workers = <<>>
    /\ active_count = 0
    /\ created = 0
    /\ held = {}
    /\ pool_call = [op |-> "none", arg |-> 0]
    /\ pool_exc = "none"
    /\ pool_ret = NoWorker

\* worker_pool = WorkerPool(count)
PoolNew(count) ==
    /\ ~pool_alive
    /\ count <= MaxCreated
    /\ pool_call' = [op |-> "new", arg |-> count]
    /\ pool_ret' = NoWorker
    /\ IF within_limit_check(count)
       THEN /\ pool_alive' = TRUE
            /\ _workers' = AppendWorkers(<<>>, 0, count)
            /\ created' = count
            /\ active_count' = 0
            /\ pool_exc' = "none"
       ELSE /\ pool_exc' = "OverLimitError"
            /\ UNCHANGED <<pool_alive, _workers, active_count, created>>
    /\ UNCHANGED <<held, notPool>>

activate_worker_no_pop ==
    /\ pool_alive
    /\ active_count < MaxActive
    /\ pool_call' = [op |-> "activate_worker", arg |-> 0]
    /\ active_count' = active_count + 1
    /\ IF Len(_workers) > 0
       THEN /\ pool_ret' = Last(_workers)
            /\ held' = held \cup {Last(_workers)}
            /\ pool_exc' = "none"
            /\ UNCHANGED _workers
       ELSE /\ pool_ret' = NoWorker
            /\ pool_exc' = "IndexError"
            /\ UNCHANGED <<_workers, held>>
    /\ UNCHANGED <<pool_alive, created, notPool>>

\* worker_pool.activate_worker(): the count is raised before the pop, and
\* list.pop() on an empty list raises IndexError.
activate_worker ==
    /\ pool_alive
    /\ active_count < MaxActive
    /\ pool_call' = [op |-> "activate_worker", arg |-> 0]
    /\ active_count' = active_count + 1
    /\ IF Len(_workers) > 0
       THEN /\ pool_ret' = Last(_workers)
            /\ _workers' = Front(_workers)
            /\ held' = held \cup {Last(_workers)}
            /\ pool_exc' = "none"
       ELSE /\ pool_ret' = NoWorker
            /\ pool_exc' = "IndexError"
            /\ UNCHANGED <<_workers, held>>
    /\ UNCHANGED <<pool_alive, created, notPool>>

\* worker_pool.deactivate_worker(worker), for a worker the client holds.
deactivate_worker(worker) ==
    /\ pool_alive
    /\ worker \in held
    /\ pool_call' = [op |-> "deactivate_worker", arg |-> worker]
    /\ active_count' = active_count - 1
    /\ _workers' = Append(_workers, worker)
    /\ held' = held \ {worker}
    /\ pool_exc' = "none"
    /\ pool_ret' = NoWorker
    /\ UNCHANGED <<pool_alive, created, notPool>>

\* The test of line 114, `diff > len(self._workers)`, on a negative diff.
resize_busy(diff, idle) == diff > idle

resize_grow_one_more(diff) == diff + 1

\* The number of workers resize adds when diff > 0 (range(diff)).
resize_grow(diff) == diff

\* The number of pops resize attempts when diff < 0 (range(abs(diff))).
resize_shrink(diff) == Abs(diff)

\* worker_pool.resize(new_count)
resize(new_count) ==
    /\ pool_alive
    /\ within_limit_check(new_count)
         => created + (new_count - (Len(_workers) + active_count)) <= MaxCreated
    /\ pool_call' = [op |-> "resize", arg |-> new_count]
    /\ pool_ret' = NoWorker
    /\ IF ~within_limit_check(new_count)
       THEN /\ pool_exc' = "OverLimitError"
            /\ UNCHANGED <<_workers, created>>
       ELSE LET total_workers == Len(_workers) + active_count
                diff == new_count - total_workers
            IN  IF diff = 0
                THEN /\ pool_exc' = "none"
                     /\ UNCHANGED <<_workers, created>>
                ELSE IF diff > 0
                THEN /\ pool_exc' = "none"
                     /\ _workers' = AppendWorkers(_workers, created, resize_grow(diff))
                     /\ created' = created + resize_grow(diff)
                ELSE IF resize_busy(diff, Len(_workers))
                THEN /\ pool_exc' = "WorkerBusyError"
                     /\ UNCHANGED <<_workers, created>>
                ELSE \* the pops run until the list is empty, then pop() raises
                     LET pops == Min(resize_shrink(diff), Len(_workers))
                     IN  /\ _workers' = SubSeq(_workers, 1, Len(_workers) - pops)
                         /\ pool_exc' = IF resize_shrink(diff) > Len(_workers)
                                        THEN "IndexError" ELSE "none"
                         /\ UNCHANGED created
    /\ UNCHANGED <<pool_alive, active_count, held, notPool>>

PoolNext ==
    \/ \E count \in Counts : PoolNew(count)
    \/ activate_worker
    \/ \E worker \in WorkerIds : deactivate_worker(worker)
    \/ \E new_count \in Counts : resize(new_count)


total_workers_of(ws, ac) == Len(ws) + ac

\* C1: a resize to a within-limit new_count that could only be met by
\* evicting active workers (the total exceeds new_count by more than the
\* number of idle workers, the active workers being the ones handed out)
\* raises WorkerBusyError and removes no worker.
C1_BusyResizeRejected ==
    [][ ( /\ pool_call'.op = "resize"
          /\ pool_call'.arg >= 1 /\ pool_call'.arg <= limit
          /\ active_count = Cardinality(held)
          /\ total_workers_of(_workers, active_count) - pool_call'.arg > Len(_workers) )
        => ( /\ pool_exc' = "WorkerBusyError"
             /\ _workers' = _workers ) ]_vars

\* C6: a resize that returns leaves len(_workers) + active_count equal to
\* new_count and active_count unchanged; growing keeps every idle worker and
\* adds new idle ones, shrinking removes idle workers only, and the workers
\* the client holds are untouched.
C6_AcceptedResize ==
    [][ ( pool_call'.op = "resize" /\ pool_exc' = "none" )
        => ( /\ Len(_workers') + active_count' = pool_call'.arg
             /\ active_count' = active_count
             /\ held' = held
             /\ Range(_workers') \cap held' = {}
             /\ IF Len(_workers') >= Len(_workers)
                THEN SubSeq(_workers', 1, Len(_workers)) = _workers
                ELSE SubSeq(_workers, 1, Len(_workers')) = _workers' ) ]_vars

\* C6 witness: a resize was accepted while a worker was active and some
\* workers stayed idle.
C6_Witness ==
    /\ pool_call.op = "resize" /\ pool_exc = "none"
    /\ active_count = 1 /\ held # {}
    /\ pool_call.arg = limit - 1

C8_ActivateDeactivate ==
    [][ /\ ( pool_call'.op = "activate_worker" /\ Len(_workers) >= 1 )
           => ( /\ pool_exc' = "none"
                /\ pool_ret' \in Range(_workers)
                /\ Len(_workers') = Len(_workers) - 1
                /\ Range(_workers') = Range(_workers) \ {pool_ret'}
                /\ held' = held \cup {pool_ret'}
                /\ active_count' = active_count + 1 )
        /\ ( pool_call'.op = "deactivate_worker" )
           => ( /\ pool_call'.arg \in held
                /\ Len(_workers') = Len(_workers) + 1
                /\ Range(_workers') = Range(_workers) \cup {pool_call'.arg}
                /\ held' = held \ {pool_call'.arg}
                /\ active_count' = active_count - 1 )
        /\ ( \/ pool_call'.op = "activate_worker" /\ Len(_workers) >= 1
             \/ pool_call'.op = "deactivate_worker" )
           => ( /\ total_workers_of(_workers', active_count')
                     = total_workers_of(_workers, active_count)
                /\ (active_count = Cardinality(held))
                     => (active_count' = Cardinality(held')) ) ]_vars

\* C8 witness: two workers were handed out and one of them came back, as in
\* the example's "1 Worker Active" check.
C8_Witness ==
    /\ pool_call.op = "deactivate_worker"
    /\ active_count = 1 /\ Cardinality(held) = 1
    /\ pool_call.arg \in Range(_workers)
    /\ Len(_workers) = 2

\* ======================================================================
\* behavioural/memento.py: CheckpointLog
\* ======================================================================

\* The largest max_length a log is constructed with (the default is 3).
MaxLogLength == 3

\* Cap on the number of add calls of one run.
MaxAdds == 5

\* The messages of the checkpoints (MapCheckpoint.message).
Messages == {"one x", "two y"}

NoCheckpoint == [id |-> 0, message |-> "None"]

\* The arguments revert is called with.
RevertCounts == 0 .. (MaxLogLength + 1)

log_is_over(len, max) == len > max

\* The test of line 116: len(self._checkpoints) == self.max_length.
log_is_full(len, max) == len = max

del_newest(cps) == SubSeq(cps, 1, Len(cps) - 1)

\* del self._checkpoints[0]
del_oldest(cps) == SubSeq(cps, 2, Len(cps))

LogStart ==
    /\ max_length \in 1 .. MaxLogLength
    /\ _checkpoints = <<>>
    /\ added = <<>>
    /\ log_call = [op |-> "none", arg |-> 0]
    /\ log_exc = "none"
    /\ log_ret = NoCheckpoint

\* cp_log.add(new_checkpoint); the checkpoint is a new MapCheckpoint object,
\* told from the others by its id.
add(message) ==
    /\ Len(added) < MaxAdds
    /\ LET new_checkpoint == [id |-> Len(added) + 1, message |-> message]
           kept == IF log_is_full(Len(_checkpoints), max_length)
                   THEN del_oldest(_checkpoints)
                   ELSE _checkpoints
       IN  /\ _checkpoints' = Append(kept, new_checkpoint)
           /\ added' = Append(added, new_checkpoint)
    /\ log_call' = [op |-> "add", arg |-> Len(added) + 1]
    /\ log_exc' = "none"
    /\ log_ret' = NoCheckpoint
    /\ UNCHANGED <<max_length, notLog>>

\* cp_log.revert(revert_count): self._checkpoints[-revert_count], where
\* index -0 is index 0 and an index outside the list raises IndexError.
revert(revert_count) ==
    /\ log_call' = [op |-> "revert", arg |-> revert_count]
    /\ IF revert_count = 0 /\ Len(_checkpoints) > 0
       THEN log_ret' = _checkpoints[1] /\ log_exc' = "none"
       ELSE IF revert_count >= 1 /\ revert_count <= Len(_checkpoints)
       THEN log_ret' = _checkpoints[Len(_checkpoints) - revert_count + 1] /\ log_exc' = "none"
       ELSE log_ret' = NoCheckpoint /\ log_exc' = "IndexError"
    /\ UNCHANGED <<_checkpoints, max_length, added, notLog>>

LogNext ==
    \/ \E message \in Messages : add(message)
    \/ \E revert_count \in RevertCounts : revert(revert_count)

\* C2: the number of stored checkpoints never exceeds max_length.
C2_LogBounded == Len(_checkpoints) <= max_length

\* C2 witness: more checkpoints were added than the log may hold.
C2_Witness ==
    /\ log_call.op = "add"
    /\ Len(added) > max_length
    /\ Len(_checkpoints) = max_length

\* C3: after n adds the log holds exactly the min(n, max_length) checkpoints
\* added last, in order of addition (the one evicted is the oldest).
C3_LogKeepsNewest ==
    LET n == Len(added)
        k == IF n < max_length THEN n ELSE max_length
    IN  /\ Len(_checkpoints) = k
        /\ \A i \in 1 .. k : _checkpoints[i] = added[n - k + i]

\* C3 witness: a log of two or more slots has evicted at least two
\* checkpoints.
C3_Witness ==
    /\ log_call.op = "add"
    /\ max_length >= 2
    /\ Len(added) >= max_length + 2
    /\ _checkpoints[1].id = Len(added) - max_length + 1

\* ======================================================================
\* behavioural/chain_of_responsibility.py
\* ======================================================================

\* Cap on the number of pools linked into one chain.
MaxChain == 3

PoolClasses == {"LocalPool", "RegionalPool", "GlobalPool"}

\* The class attribute `candidates` of each pool class.
candidates(cls) ==
    IF cls = "LocalPool" THEN
        << [id |-> 12, type |-> "developer", level |-> "intermediate"],
           [id |-> 21, type |-> "analyst", level |-> "junior"] >>
    ELSE IF cls = "RegionalPool" THEN
        << [id |-> 123, type |-> "project_manager", level |-> "intermediate"],
           [id |-> 321, type |-> "designer", level |-> "intermediate"] >>
    ELSE
        << [id |-> 1234, type |-> "developer", level |-> "senior"],
           [id |-> 4321, type |-> "designer", level |-> "senior"] >>

None == [none |-> TRUE]

\* The requests a client makes: any choice of keys with values from these.
ParamKeys == {"id", "type", "level"}

ParamValues ==
    [ id : {12, 1234, 7},
      type : {"developer", "designer", "tester"},
      level : {"intermediate", "senior"} ]

ParamsSet == { [k \in D |-> f[k]] : f \in ParamValues, D \in SUBSET ParamKeys }

\* The chains a client builds: pool objects of any class, each constructed
\* with the next one as its successor_pool, the last one with None.
Chains == UNION { [1 .. n -> PoolClasses] : n \in 1 .. MaxChain }

\* all(key in candidate.items() for key in params.items())
items_match(candidate, params) ==
    \A k \in DOMAIN params : k \in DOMAIN candidate /\ candidate[k] = params[k]

\* A value's truth value in `if match:`: None and the empty dict are false.
truthy(v) == v # None /\ DOMAIN v # {}

RECURSIVE find_last_from(_, _, _)
find_last_from(cands, i, params) ==
    IF i < 1 THEN None
    ELSE IF items_match(cands[i], params) THEN cands[i]
    ELSE find_last_from(cands, i - 1, params)

_find_last(cls, params) == find_last_from(candidates(cls), Len(candidates(cls)), params)

\* The loop of _find from candidate i on: the first match, or None when the
\* loop ends.
RECURSIVE find_from(_, _, _)
find_from(cands, i, params) ==
    IF i > Len(cands) THEN None
    ELSE IF items_match(cands[i], params) THEN cands[i]
    ELSE find_from(cands, i + 1, params)

\* AbstractPool._find(params) on a pool of class cls.
_find(cls, params) == find_from(candidates(cls), 1, params)

\* AbstractPool.get_match(params) on pool i of the chain: [ret, visited].
RECURSIVE get_match_on(_, _, _)
get_match_on(chain, i, params) ==
    LET match == _find(chain[i], params)
    IN  IF truthy(match)
        THEN [ret |-> match, visited |-> <<i>>]
        ELSE IF i < Len(chain)
        THEN LET rest == get_match_on(chain, i + 1, params)
             IN  [ret |-> rest.ret, visited |-> <<i>> \o rest.visited]
        ELSE [ret |-> None, visited |-> <<i>>]

CorStart ==
    /\ cor_chain \in Chains
    /\ cor_call = None
    /\ cor_ret = None
    /\ cor_visited = <<>>

\* pool.get_match(params), called on pool `start` of the chain.
get_match(start, params) ==
    /\ start \in 1 .. Len(cor_chain)
    /\ LET r == get_match_on(cor_chain, start, params)
       IN  /\ cor_ret' = r.ret
           /\ cor_visited' = r.visited
    /\ cor_call' = [start |-> start, params |-> params]
    /\ UNCHANGED <<cor_chain, notCor>>

CorNext ==
    \E start \in 1 .. MaxChain, params \in ParamsSet : get_match(start, params)

\* A candidate holds every key/value of the request.
HoldsParams(candidate, params) ==
    \A k \in DOMAIN params : k \in DOMAIN candidate /\ candidate[k] = params[k]

PoolHolds(cls, params) ==
    { j \in 1 .. Len(candidates(cls)) : HoldsParams(candidates(cls)[j], params) }

Lowest(S) == CHOOSE x \in S : \A y \in S : x <= y

\* C4: get_match returns the first candidate, in list order, of the first
\* pool in chain order that holds a match for every key/value of params;
\* the pools consulted are exactly those up to that pool, and the result is
\* None, with every pool consulted, when no pool matches.  A request for a
\* senior developer on local > regional > global returns candidate 1234.
C4_FirstMatchInChain ==
    cor_call # None =>
        LET start == cor_call.start
            params == cor_call.params
            hits == { i \in start .. Len(cor_chain) : PoolHolds(cor_chain[i], params) # {} }
            upto(last) == [ i \in 1 .. (last - start + 1) |-> start + i - 1 ]
        IN  /\ IF hits = {}
               THEN /\ cor_ret = None
                    /\ cor_visited = upto(Len(cor_chain))
               ELSE LET first == Lowest(hits)
                        j == Lowest(PoolHolds(cor_chain[first], params))
                    IN  /\ cor_ret = candidates(cor_chain[first])[j]
                        /\ cor_visited = upto(first)
            /\ ( /\ cor_chain = <<"LocalPool", "RegionalPool", "GlobalPool">>
                 /\ start = 1
                 /\ params = [type |-> "developer", level |-> "senior"] )
               => ( /\ cor_ret # None
                    /\ cor_ret.id = 1234
                    /\ \A j \in 1 .. 2 : /\ cor_ret # candidates("LocalPool")[j]
                                         /\ cor_ret # candidates("RegionalPool")[j] )

\* C4 witness: the example's request went through the local and regional
\* pools and was met by the global pool.
C4_Witness ==
    /\ cor_chain = <<"LocalPool", "RegionalPool", "GlobalPool">>
    /\ cor_call = [start |-> 1, params |-> [type |-> "developer", level |-> "senior"]]
    /\ cor_visited = <<1, 2, 3>>
    /\ cor_ret = [id |-> 1234, type |-> "developer", level |-> "senior"]

\* ======================================================================
\* behavioural/command.py
\* ======================================================================

\* Cap on the number of migrations an invoker is constructed with.
MaxMigrations == 4

\* Cap on _version, so that the run of run_all calls is finite.
MaxVersion == 8

\* MigrationCommand ("good": run prints) and BadMigrationCommand ("bad": run
\* raises RuntimeError); rollback prints for both.
CommandClasses == {"good", "bad"}

MigrationLists == UNION { [1 .. n -> CommandClasses] : n \in 0 .. MaxMigrations }

slice_len_short(version, n) == Min(version - 1, n)

\* The length of the slice self.migrations[:self._version].
slice_len(version, n) == Min(version, n)

\* The call migration.run() / migration.rollback() on migration i.
Event(ev, i) == [ev |-> ev, i |-> i]

\* The loop of rollback_all from migration i down to the first one, on the
\* state st = [version, applied, log].
RECURSIVE rollback_from(_, _)
rollback_from(st, i) ==
    IF i < 1 THEN st
    ELSE rollback_from(
            [ version |-> st.version - 1,
              applied |-> [st.applied EXCEPT ![i] = @ - 1],
              log |-> Append(st.log, Event("rollback", i)) ], i - 1)

\* Invoker.rollback_all on the state st.
rollback_all_on(st) ==
    IF st.version = 0 THEN st
    ELSE rollback_from(st, slice_len(st.version, Len(st.applied)))

\* The loop of run_all from migration i on: [version, applied, log, ret].
RECURSIVE run_from(_, _, _)
run_from(ms, st, i) ==
    IF i > Len(ms) THEN [st EXCEPT !.ret = "None"]
    ELSE IF ms[i] = "good"
    THEN run_from(ms,
            [ version |-> st.version + 1,
              applied |-> [st.applied EXCEPT ![i] = @ + 1],
              log |-> Append(st.log, Event("run", i)),
              ret |-> st.ret ], i + 1)
    ELSE LET back == rollback_all_on([version |-> st.version, applied |-> st.applied,
                                      log |-> Append(st.log, Event("raise", i))])
         IN  [ version |-> back.version, applied |-> back.applied,
               log |-> back.log, ret |-> "False" ]

CmdStart ==
    /\ migrations \in MigrationLists
    /\ _version = 0
    /\ applied = [i \in 1 .. Len(migrations) |-> 0]
    /\ cmd_call = "none"
    /\ cmd_ret = "None"
    /\ cmd_log = <<>>

\* migrations_invoker.run_all()
run_all ==
    /\ _version + Len(migrations) <= MaxVersion
    /\ LET r == run_from(migrations,
                         [version |-> _version, applied |-> applied, log |-> <<>>, ret |-> "None"], 1)
       IN  /\ _version' = r.version
           /\ applied' = r.applied
           /\ cmd_log' = r.log
           /\ cmd_ret' = r.ret
    /\ cmd_call' = "run_all"
    /\ UNCHANGED <<migrations, notCmd>>

\* migrations_invoker.rollback_all()
rollback_all ==
    /\ LET r == rollback_all_on([version |-> _version, applied |-> applied, log |-> <<>>])
       IN  /\ _version' = r.version
           /\ applied' = r.applied
           /\ cmd_log' = r.log
    /\ cmd_ret' = "None"
    /\ cmd_call' = "rollback_all"
    /\ UNCHANGED <<migrations, notCmd>>

\* del migrations_invoker.migrations[-1]
del_last_migration ==
    /\ Len(migrations) > 0
    /\ migrations' = SubSeq(migrations, 1, Len(migrations) - 1)
    /\ applied' = SubSeq(applied, 1, Len(applied) - 1)
    /\ cmd_call' = "del"
    /\ cmd_ret' = "None"
    /\ cmd_log' = <<>>
    /\ UNCHANGED <<_version, notCmd>>

CmdNext ==
    \/ run_all
    \/ rollback_all
    \/ del_last_migration

Bads == { i \in 1 .. Len(migrations) : migrations[i] = "bad" }

Runs(from, to) == [ i \in 1 .. (to - from + 1) |-> Event("run", from + i - 1) ]

Rollbacks(from) == [ i \in 1 .. from |-> Event("rollback", from - i + 1) ]

\* C5: run_all is atomic.  When the run of a migration raises, the
\* migrations run before it are rolled back (each once, newest first),
\* run_all returns False and no migration is left applied; when no run
\* raises, every migration has been run exactly once, in list order.
C5_RunAllAtomic ==
    cmd_call = "run_all" =>
        IF Bads # {}
        THEN LET k == Lowest(Bads)
             IN  /\ cmd_ret = "False"
                 /\ cmd_log = Runs(1, k - 1) \o <<Event("raise", k)>> \o Rollbacks(k - 1)
                 /\ \A i \in 1 .. Len(migrations) : applied[i] = 0
                 /\ _version = 0
        ELSE /\ cmd_ret = "None"
             /\ cmd_log = Runs(1, Len(migrations))

\* C5 witness: three migrations ran, the fourth raised and the three were
\* rolled back, as in the example.
C5_Witness ==
    /\ cmd_call = "run_all"
    /\ migrations = <<"good", "good", "good", "bad">>
    /\ cmd_ret = "False"
    /\ Len(cmd_log) = 7

\* ======================================================================
\* behavioural/mediator.py
\* ======================================================================

\* Cap on the number of nodes registered with the mediator.
MaxNodes == 3

NodeTypes == {"master", "local_master", "general"}

LocalGroups == {"G1", "G2"}

toggle_all_but_masters(nodes, activate) ==
    [ j \in 1 .. Len(nodes) |->
        IF nodes[j].type # "master" THEN [nodes[j] EXCEPT !.active = activate] ELSE nodes[j] ]

\* NetworkMediator._toggle_all(activate)
_toggle_all(nodes, activate) ==
    [ j \in 1 .. Len(nodes) |-> [nodes[j] EXCEPT !.active = activate] ]

toggle_local_with_masters(nodes, local_group, activate) ==
    [ j \in 1 .. Len(nodes) |->
        IF nodes[j].local_group = local_group
        THEN [nodes[j] EXCEPT !.active = activate] ELSE nodes[j] ]

\* NetworkMediator._toggle_local(local_group, activate)
_toggle_local(nodes, local_group, activate) ==
    [ j \in 1 .. Len(nodes) |->
        IF nodes[j].local_group = local_group /\ nodes[j].type # "master"
        THEN [nodes[j] EXCEPT !.active = activate] ELSE nodes[j] ]

toggle_general_as_local(nodes, src, activate) ==
    IF nodes[src].type = "master" THEN _toggle_all(nodes, activate)
    ELSE _toggle_local(nodes, nodes[src].local_group, activate)

\* NetworkMediator.toggle(source, activate), source being node src.
toggle(nodes, src, activate) ==
    IF nodes[src].type = "master" THEN _toggle_all(nodes, activate)
    ELSE IF nodes[src].type = "local_master"
    THEN _toggle_local(nodes, nodes[src].local_group, activate)
    ELSE [nodes EXCEPT ![src].active = activate]

MedStart ==
    /\ _nodes = <<>>
    /\ med_call = [op |-> "none", src |-> 0, activate |-> FALSE]

\* Node(mediator, name, n_type, local_group): registers itself with the
\* mediator and starts inactive.
NewNode(n_type, local_group) ==
    /\ Len(_nodes) < MaxNodes
    /\ _nodes' = Append(_nodes, [type |-> n_type, local_group |-> local_group, active |-> FALSE])
    /\ med_call' = [op |-> "Node", src |-> Len(_nodes) + 1, activate |-> FALSE]
    /\ UNCHANGED notMed

\* node.activate()
activate(src) ==
    /\ src \in 1 .. Len(_nodes)
    /\ _nodes' = toggle(_nodes, src, TRUE)
    /\ med_call' = [op |-> "toggle", src |-> src, activate |-> TRUE]
    /\ UNCHANGED notMed

\* node.deactivate()
deactivate(src) ==
    /\ src \in 1 .. Len(_nodes)
    /\ _nodes' = toggle(_nodes, src, FALSE)
    /\ med_call' = [op |-> "toggle", src |-> src, activate |-> FALSE]
    /\ UNCHANGED notMed

MedNext ==
    \/ \E n_type \in NodeTypes, local_group \in LocalGroups : NewNode(n_type, local_group)
    \/ \E src \in 1 .. MaxNodes : activate(src)
    \/ \E src \in 1 .. MaxNodes : deactivate(src)

\* C9: activate() or deactivate() on a master node sets the active attribute
\* of every registered node to the requested value, whatever its type or
\* local group.
C9_MasterTogglesAll ==
    ( med_call.op = "toggle" /\ _nodes[med_call.src].type = "master" )
        => \A j \in 1 .. Len(_nodes) : _nodes[j].active = med_call.activate

\* C9 witness: a master activated a network that holds a local master and a
\* general node of two different groups.
C9_Witness ==
    /\ med_call.op = "toggle" /\ med_call.activate
    /\ Len(_nodes) = 3
    /\ _nodes[med_call.src].type = "master"
    /\ \E a, b \in 1 .. 3 : /\ _nodes[a].type = "local_master"
                            /\ _nodes[b].type = "general"
                            /\ _nodes[a].local_group # _nodes[b].local_group
                            /\ _nodes[a].active /\ _nodes[b].active

\* C10: activate() or deactivate() on a local_master sets the active
\* attribute of exactly the registered nodes of its local group that are not
\* masters (itself included); masters and nodes of other groups keep theirs.
C10_LocalMasterTogglesGroup ==
    [][ ( med_call'.op = "toggle" /\ _nodes[med_call'.src].type = "local_master" )
        => ( /\ Len(_nodes') = Len(_nodes)
             /\ _nodes'[med_call'.src].active = med_call'.activate
             /\ \A j \in 1 .. Len(_nodes) :
                   /\ _nodes'[j].type = _nodes[j].type
                   /\ _nodes'[j].local_group = _nodes[j].local_group
                   /\ _nodes'[j].active =
                        IF /\ _nodes[j].local_group = _nodes[med_call'.src].local_group
                           /\ _nodes[j].type # "master"
                        THEN med_call'.activate
                        ELSE _nodes[j].active ) ]_vars

\* C10 witness: a local master was deactivated while a master of its own
\* group and a node of another group stayed active.
C10_Witness ==
    /\ med_call.op = "toggle" /\ ~med_call.activate
    /\ Len(_nodes) = 3
    /\ _nodes[med_call.src].type = "local_master"
    /\ ~_nodes[med_call.src].active
    /\ \E a, b \in 1 .. 3 : /\ _nodes[a].type = "master"
                            /\ _nodes[a].local_group = _nodes[med_call.src].local_group
                            /\ _nodes[a].active
                            /\ _nodes[b].local_group # _nodes[med_call.src].local_group
                            /\ _nodes[b].active

\* C11: activate() or deactivate() on a general node (neither master nor
\* local_master) sets that node's own active attribute and changes no other
\* registered node.
C11_GeneralTogglesItself ==
    [][ ( /\ med_call'.op = "toggle"
          /\ _nodes[med_call'.src].type \notin {"master", "local_master"} )
        => ( /\ Len(_nodes') = Len(_nodes)
             /\ _nodes'[med_call'.src].active = med_call'.activate
             /\ \A j \in 1 .. Len(_nodes) :
                   /\ j # med_call'.src => _nodes'[j] = _nodes[j]
                   /\ _nodes'[j].type = _nodes[j].type
                   /\ _nodes'[j].local_group = _nodes[j].local_group ) ]_vars

\* C11 witness: a general node was activated while the local master and the
\* other general node of its group stayed inactive, as g1_b in the example.
C11_Witness ==
    /\ med_call.op = "toggle" /\ med_call.activate
    /\ Len(_nodes) = 3
    /\ _nodes[med_call.src].type = "general"
    /\ _nodes[med_call.src].active
    /\ \E a, b \in 1 .. 3 : /\ a # med_call.src /\ b # med_call.src
                            /\ _nodes[a].type = "local_master"
                            /\ _nodes[b].type = "general"
                            /\ _nodes[a].local_group = _nodes[med_call.src].local_group
                            /\ _nodes[b].local_group = _nodes[med_call.src].local_group
                            /\ ~_nodes[a].active /\ ~_nodes[b].active

\* ======================================================================
\* behavioural/observer.py
\* ======================================================================

\* Cap on the number of bot objects constructed of one class.
MaxInstances == 2

\* AbstractObserverBot and its three children.
BotClasses == {"AbstractObserverBot", "SentimentAnalyser", "ProfanityDetector", "SpamDetector"}

\* The bot objects: the n-th object of a class.
Bots == [cls : BotClasses, n : 1 .. MaxInstances]

NoBot == [cls |-> "None", n |-> 0]

Posts == {"Hello this is a post.", "Hello this is another post."}

same_object(bot, probe) == bot = probe

\* isinstance(bot, probe.__class__): the bot's class is the probe's class or
\* a child of it.
isinstance_of(bot, probe) ==
    bot.cls = probe.cls \/ probe.cls = "AbstractObserverBot"

\* The indexes of the bots that are instances of the probe's class.
type_matches(bots, probe) == { i \in 1 .. Len(bots) : isinstance_of(bots[i], probe) }

notify_newest_first(bots, post) ==
    [ i \in 1 .. Len(bots) |-> [bot |-> bots[Len(bots) + 1 - i], post |-> post] ]

\* ObservableForum._notify_observers(post): the process calls, in order.
_notify_observers(bots, post) ==
    [ i \in 1 .. Len(bots) |-> [bot |-> bots[i], post |-> post] ]

\* The list after self._observer_bots.remove(bots[k]).
without(bots, k) == SubSeq(bots, 1, k - 1) \o SubSeq(bots, k + 1, Len(bots))

ObsStart ==
    /\ _observer_bots = <<>>
    /\ obs_call = [op |-> "none", bot |-> NoBot, post |-> ""]
    /\ obs_processed = <<>>

\* forum.add_observer_bot(new_bot)
add_observer_bot(new_bot) ==
    /\ _observer_bots' = IF type_matches(_observer_bots, new_bot) = {}
                         THEN Append(_observer_bots, new_bot)
                         ELSE _observer_bots
    /\ obs_call' = [op |-> "add_observer_bot", bot |-> new_bot, post |-> ""]
    /\ obs_processed' = <<>>
    /\ UNCHANGED notObs

\* forum.remove_observer_bot(bot_to_remove): the first type match is removed.
remove_observer_bot(bot_to_remove) ==
    /\ LET found == type_matches(_observer_bots, bot_to_remove)
       IN  _observer_bots' = IF found = {}
                             THEN _observer_bots
                             ELSE without(_observer_bots, CHOOSE k \in found : \A m \in found : k <= m)
    /\ obs_call' = [op |-> "remove_observer_bot", bot |-> bot_to_remove, post |-> ""]
    /\ obs_processed' = <<>>
    /\ UNCHANGED notObs

\* forum.new_post(post)
new_post(post) ==
    /\ obs_processed' = _notify_observers(_observer_bots, post)
    /\ obs_call' = [op |-> "new_post", bot |-> NoBot, post |-> post]
    /\ UNCHANGED <<_observer_bots, notObs>>

ObsNext ==
    \/ \E new_bot \in Bots : add_observer_bot(new_bot)
    \/ \E bot_to_remove \in Bots : remove_observer_bot(bot_to_remove)
    \/ \E post \in Posts : new_post(post)

\* C12: the observer list holds at most one bot of each bot type, and adding
\* a bot whose type is already in the list leaves the list unchanged.
C12_OneBotPerType ==
    [][ /\ \A i, j \in 1 .. Len(_observer_bots') :
              i # j => _observer_bots'[i].cls # _observer_bots'[j].cls
        /\ ( /\ obs_call'.op = "add_observer_bot"
             /\ \E i \in 1 .. Len(_observer_bots) : _observer_bots[i].cls = obs_call'.bot.cls )
           => _observer_bots' = _observer_bots ]_vars

\* C12 witness: a second SentimentAnalyser was offered to a forum that holds
\* one already, next to two bots of other types.
C12_Witness ==
    /\ obs_call.op = "add_observer_bot"
    /\ obs_call.bot = [cls |-> "SentimentAnalyser", n |-> 2]
    /\ Len(_observer_bots) = 3
    /\ _observer_bots[1] = [cls |-> "SentimentAnalyser", n |-> 1]

\* C13: new_post calls process(post) exactly once on each bot of the
\* observer list, in list order, and on no other bot; the list is in order
\* of addition (a bot is added at the end, a removal keeps the order of the
\* others), and a bot removed is no longer in the list while every other bot
\* stays in it.
C13_NotifiesListedBots ==
    [][ /\ ( obs_call'.op = "new_post" )
           => ( /\ _observer_bots' = _observer_bots
                /\ Len(obs_processed') = Len(_observer_bots)
                /\ \A i \in 1 .. Len(_observer_bots) :
                      /\ obs_processed'[i].bot = _observer_bots[i]
                      /\ obs_processed'[i].post = obs_call'.post )
        /\ ( obs_call'.op = "add_observer_bot" /\ _observer_bots' # _observer_bots )
           => _observer_bots' = Append(_observer_bots, obs_call'.bot)
        /\ ( obs_call'.op = "remove_observer_bot" )
           => ( /\ obs_call'.bot \notin Range(_observer_bots')
                /\ \/ _observer_bots' = _observer_bots
                   \/ \E k \in 1 .. Len(_observer_bots) :
                        /\ _observer_bots' = without(_observer_bots, k)
                        /\ obs_call'.bot \in Range(_observer_bots)
                              => _observer_bots[k] = obs_call'.bot ) ]_vars

\* C13 witness: after the ProfanityDetector was removed from between two
\* other bots, a post was processed by those two, in their order.
C13_Witness ==
    /\ obs_call.op = "new_post"
    /\ obs_call.post = "Hello this is another post."
    /\ Len(obs_processed) = 2
    /\ obs_processed[1].bot.cls = "SentimentAnalyser"
    /\ obs_processed[2].bot.cls = "SpamDetector"

\* ======================================================================
\* behavioural/state.py
\* ======================================================================

\* Cap on the number of Tv objects constructed.
MaxTvs == 3

\* Cap on the number of presses of one Tv.
MaxPresses == 4

\* State.operate on the state object of a Tv: the status it prints, 'On' for
\* the TurnOn object (tv.on) and 'Off' for the TurnOff object (tv.off).
operate(state) == IF state = "on" THEN "On" ELSE "Off"

\* TurnOn.change_state / TurnOff.change_state: the next value of tv.state.
change_state(state) == IF state = "on" THEN "off" ELSE "on"

TvStart == tvs = <<>>

\* t = Tv(): self.state = self.on
NewTv ==
    /\ Len(tvs) < MaxTvs
    /\ tvs' = Append(tvs, [state |-> "on", ops |-> <<>>])
    /\ UNCHANGED notTv

\* t.press(): operate, then change_state
press(t) ==
    /\ t \in 1 .. Len(tvs)
    /\ Len(tvs[t].ops) < MaxPresses
    /\ tvs' = [tvs EXCEPT ![t] = [ state |-> change_state(tvs[t].state),
                                   ops |-> Append(tvs[t].ops, operate(tvs[t].state)) ]]
    /\ UNCHANGED notTv

TvNext ==
    \/ NewTv
    \/ \E t \in 1 .. MaxTvs : press(t)

\* C14: the first press of a Tv performs the turn-Off operation, and every
\* later press performs the opposite operation of the press before it.
C14_FirstPressTurnsOff ==
    \A t \in 1 .. Len(tvs) :
        /\ Len(tvs[t].ops) >= 1 => tvs[t].ops[1] = "Off"
        /\ \A k \in 2 .. Len(tvs[t].ops) : tvs[t].ops[k] # tvs[t].ops[k - 1]

\* ======================================================================
\* behavioural/memento.py: MapBuilder
\* ======================================================================

\* The largest width and height a map is built with.
MaxSide == 2

\* The coordinates a client draws to: inside the map, beyond it and negative.
Coords == (0 - (MaxSide + 1)) .. (MaxSide + 1)

\* The values a client draws: a mark, or the default value again.
Values == {"x", "-"}

\* The 1-based position a Python list index i selects in a list of n
\* elements (a negative index counts from the end); 0 stands for IndexError.
list_index(i, n) ==
    IF i >= 0 /\ i < n THEN i + 1
    ELSE IF i < 0 /\ i >= 0 - n THEN n + i + 1
    ELSE 0

\* The test of line 61 negated: TRUE when draw goes on to draw.
in_range(coords, size) == coords[1] < size[1] /\ coords[2] < size[2]

\* MapBuilder._build_default_map
_build_default_map(size) == [ y \in 1 .. size[2] |-> [ x \in 1 .. size[1] |-> "-" ] ]

MapStart ==
    /\ map_size \in (1 .. MaxSide) \X (1 .. MaxSide)
    /\ map = _build_default_map(map_size)
    /\ draw_call = [op |-> "none", coords |-> <<0, 0>>, value |-> "-"]
    /\ draw_ret = "None"
    /\ draw_exc = "none"

\* map_builder.draw(coords, value)
draw(coords, value) ==
    /\ draw_call' = [op |-> "draw", coords |-> coords, value |-> value]
    /\ IF ~in_range(coords, map_size)
       THEN /\ draw_ret' = "False"
            /\ draw_exc' = "none"
            /\ UNCHANGED map
       ELSE LET row == list_index(coords[2], Len(map))
                col == list_index(coords[1], map_size[1])
            IN  IF row = 0 \/ col = 0
                THEN /\ draw_ret' = "None"
                     /\ draw_exc' = "IndexError"
                     /\ UNCHANGED map
                ELSE /\ draw_ret' = "None"
                     /\ draw_exc' = "none"
                     /\ map' = [map EXCEPT ![row][col] = value]
    /\ UNCHANGED <<map_size, notMap>>

MapNext ==
    \E coords \in Coords \X Coords, value \in Values : draw(coords, value)

\* C15: draw on a pair (x, y) that is not a tile of the map, that is not
\* (0 <= x < width and 0 <= y < height), returns False and leaves every tile
\* unchanged.
C15_DrawBoundsCheck ==
    [][ ( /\ draw_call'.op = "draw"
          /\ ~( /\ 0 <= draw_call'.coords[1] /\ draw_call'.coords[1] < map_size[1]
                /\ 0 <= draw_call'.coords[2] /\ draw_call'.coords[2] < map_size[2] ) )
        => ( /\ draw_ret' = "False"
             /\ draw_exc' = "none"
             /\ map' = map ) ]_vars

\* ======================================================================
\* The specifications: one per example.  The other examples' variables are
\* held at one initial value.
\* ======================================================================

PoolIdle == PoolStart

LogIdle == LogStart /\ max_length = MaxLogLength

CorIdle == CorStart /\ cor_chain = <<"LocalPool", "RegionalPool", "GlobalPool">>

CmdIdle == CmdStart /\ migrations = <<>>

MedIdle == MedStart

ObsIdle == ObsStart

TvIdle == TvStart

MapIdle == MapStart /\ map_size = <<MaxSide, MaxSide>>

PoolInit == PoolStart /\ LogIdle /\ CorIdle /\ CmdIdle /\ MedIdle /\ ObsIdle /\ TvIdle /\ MapIdle

SpecPool == PoolInit /\ [][PoolNext]_vars

LogInit == PoolIdle /\ LogStart /\ CorIdle /\ CmdIdle /\ MedIdle /\ ObsIdle /\ TvIdle /\ MapIdle

SpecLog == LogInit /\ [][LogNext]_vars

CorInit == PoolIdle /\ LogIdle /\ CorStart /\ CmdIdle /\ MedIdle /\ ObsIdle /\ TvIdle /\ MapIdle

SpecChain == CorInit /\ [][CorNext]_vars

CmdInit == PoolIdle /\ LogIdle /\ CorIdle /\ CmdStart /\ MedIdle /\ ObsIdle /\ TvIdle /\ MapIdle

SpecCommand == CmdInit /\ [][CmdNext]_vars

MedInit == PoolIdle /\ LogIdle /\ CorIdle /\ CmdIdle /\ MedStart /\ ObsIdle /\ TvIdle /\ MapIdle

SpecMediator == MedInit /\ [][MedNext]_vars

ObsInit == PoolIdle /\ LogIdle /\ CorIdle /\ CmdIdle /\ MedIdle /\ ObsStart /\ TvIdle /\ MapIdle

SpecObserver == ObsInit /\ [][ObsNext]_vars

TvInit == PoolIdle /\ LogIdle /\ CorIdle /\ CmdIdle /\ MedIdle /\ ObsIdle /\ TvStart /\ MapIdle

SpecTv == TvInit /\ [][TvNext]_vars

MapInit == PoolIdle /\ LogIdle /\ CorIdle /\ CmdIdle /\ MedIdle /\ ObsIdle /\ TvIdle /\ MapStart

SpecMap == MapInit /\ [][MapNext]_vars

====
